---- MODULE Spec2Model ----
(***************************************************************************)
(* A model of rnacounter's draft.py (Python 2): the exon records and their *)
(* combination (GenomicObject.__and__, Exon.__and__), cobble and           *)
(* intersect_exons_list, the read Counter, process_chunk and the chunk     *)
(* loop of rnacount.                                                       *)
(*                                                                         *)
(* Conventions.                                                            *)
(*  - An identifier (exon_id, piece id) is a sequence of atoms: the id of  *)
(*    a parsed exon is <<k>>, and the string concatenation selfid+otherid  *)
(*    of __and__ is \o.  Transcript ids are atoms.                         *)
(*  - A transcripts list is a sequence (the code appends to lists, and a   *)
(*    transcript may occur twice in one).                                  *)
(*  - Coordinates lie on a grid of 50bp, so that pieces shorter and longer *)
(*    than the 100bp threshold both occur.                                 *)
(*  - The reads come from the alignment file, which is outside the model:  *)
(*    the sam.fetch calls of process_chunk and the score they yield are    *)
(*    left out; Counter is modelled on its own (SpecCounter).              *)
(*  - score, gene_id and gene_name of a cobbled piece are never read by    *)
(*    process_chunk and are left out of the piece records; of name only    *)
(*    the number of entries in tp_map is read, and tp_map holds indices.   *)
(***************************************************************************)
EXTENDS Integers, Sequences, FiniteSets, TLC

VARIABLES
    pc,           \* position in process_chunk
    ret,          \* where process_chunk returns to
    ckexons,      \* process_chunk's argument: the chunk of exon occurrences
    chrom,        \* process_chunk's argument / rnacount's chrom
    exons,        \* the regrouped exons
    pieces,       \* cobble's result, later rewritten by the collapsing step
    t2e,          \* {transcript: [pieces IDs]}
    tx_replace,   \* {replaced transcript: representative}
    transcripts,  \* the remaining transcripts
    tp_map,       \* {transcript: [pieces]} (indices into pieces)
    Avals         \* the structure matrix, entries as <<numerator, denominator>>

chunkVars == <<pc, ret, ckexons, chrom, exons, pieces, t2e, tx_replace,
               transcripts, tp_map, Avals>>

VARIABLES
    annot,        \* the rows of the annotation file
    rowi,         \* the row held in "row": annot[rowi], or '' past the end
    lastchrom,    \* rnacount's lastchrom
    chrexons,     \* the exons loaded for a chromosome
    lastend,      \* rnacount's lastend
    lastgeneid,   \* rnacount's lastgeneid
    xi,           \* the place of "exon" in "for exon in chrexons"
    handed        \* the exons given to process_chunk so far, in order

driverVars == <<annot, rowi, lastchrom, chrexons, lastend, lastgeneid, xi, handed>>

VARIABLES
    cfeats,       \* the list reduce folds with &
    ci,           \* how many features of cfeats are folded
    cself,        \* the left operand of the last &
    cacc,         \* the result of the last &
    cpc           \* "reduce", "done" or "AssertionError"

combineVars == <<cfeats, ci, cself, cacc, cpc>>

VARIABLES
    stranded,     \* Counter(stranded=...)
    cstrand,      \* Counter.strand
    n,            \* Counter.n, in units of 1/Scale
    n_raw,        \* Counter.n_raw
    n_ws,         \* Counter.n_ws, in units of 1/Scale
    alignment,    \* the read of the last call
    nreads        \* the number of reads visited

counterVars == <<stranded, cstrand, n, n_raw, n_ws, alignment, nreads>>

vars == <<chunkVars, driverVars, combineVars, counterVars>>

-----------------------------------------------------------------------------
(* Bounds *)

\* The coordinates are 0, 50, ..., 50 * MaxPos.
MaxPos == 3
\* The most exon occurrences (annotation rows) of a chunk.
MaxOcc == 3

\* if p.length < 100: continue
MinPieceLength == 100

Coord == {50 * k : k \in 0..MaxPos}

-----------------------------------------------------------------------------
(* General helpers *)

Range(s) == {s[i] : i \in DOMAIN s}

Count(s, x) == Cardinality({i \in DOMAIN s : s[i] = x})

Max(a, b) == IF a >= b THEN a ELSE b

Perms(m) == {f \in [1..m -> 1..m] : \A i, j \in 1..m : f[i] = f[j] => i = j}

\* The orders of m objects, for every m.
Orders == [m \in 1..MaxOcc |-> Perms(m)]

\* The sequence of the integers of S in increasing order.
RECURSIVE SortedSeq(_)
SortedSeq(S) ==
    IF S = {} THEN <<>>
    ELSE LET m == CHOOSE x \in S : \A y \in S : x <= y
         IN <<m>> \o SortedSeq(S \ {m})

RECURSIVE Flatten(_)
Flatten(ss) == IF ss = <<>> THEN <<>> ELSE Head(ss) \o Flatten(Tail(ss))

-----------------------------------------------------------------------------
(* Exon records *)

\* Exon.__init__ after parse_gtf: length = end - start, multiplicity = 1,
\* transcripts = [transcript_id].
Exon(id, gene_id, gene_name, chr, start, end, strand, tx) ==
    [id |-> id, gene_id |-> gene_id, gene_name |-> gene_name, chrom |-> chr,
     start |-> start, end |-> end, strand |-> strand,
     length |-> end - start, multiplicity |-> 1, transcripts |-> <<tx>>]

\* The fields of an Exon object that process_chunk reads from a piece.
PieceOf(e) ==
    [id |-> e.id, chrom |-> e.chrom, start |-> e.start, end |-> e.end,
     strand |-> e.strand, length |-> e.length,
     multiplicity |-> e.multiplicity, transcripts |-> e.transcripts]

\* (self.strand + other.strand)/2 on Python 2 ints: floor division.
MeanStrand(s1, s2) == (s1 + s2) \div 2

\* ExonAnd without the line of Exon.__and__ that unites the transcripts:
\* the result keeps those of self.
ExonAndNoUnion(a, b) ==
    [id |-> a.id \o b.id, chrom |-> a.chrom, start |-> 0, end |-> 0,
     strand |-> (a.strand + b.strand) \div 2, length |-> 0,
     multiplicity |-> a.multiplicity + b.multiplicity,
     transcripts |-> a.transcripts]

\* GenomicObject.__and__ then Exon.__and__.  The result is built by
\* self.__class__(...) without start, end or length: Exon.__init__ sets
\* start = end = 0 and length = end - start = 0.  list(set | set) has no
\* duplicates; its order is not read.
ExonAnd(a, b) ==
    [id |-> a.id \o b.id, chrom |-> a.chrom, start |-> 0, end |-> 0,
     strand |-> MeanStrand(a.strand, b.strand), length |-> 0,
     multiplicity |-> a.multiplicity + b.multiplicity,
     transcripts |-> SortedSeq(Range(a.transcripts) \cup Range(b.transcripts))]

\* assert self.chrom==other.chrom
SameChrom(fs) == \A i, j \in DOMAIN fs : fs[i].chrom = fs[j].chrom

RECURSIVE Reduce(_, _)
Reduce(acc, fs) ==
    IF fs = <<>> THEN acc ELSE Reduce(ExonAnd(acc, Head(fs)), Tail(fs))

\* list(set(feats)): the features in the set's iteration order, which follows
\* the objects' hashes (addresses); rank[i] is the place of exon i in it.
RECURSIVE SetOrder(_, _)
SetOrder(S, rank) ==
    IF S = {} THEN <<>>
    ELSE LET m == CHOOSE x \in S : \A y \in S : rank[x] <= rank[y]
         IN <<m>> \o SetOrder(S \ {m}, rank)

\* intersect_exons_list(feats) with multiple=False, feats given as indices
\* into exs: a deepcopy of the only feature, or the features folded by &.
IntersectExonsList(exs, active, rank) ==
    LET order == SetOrder(Range(active), rank)
        feats == [i \in DOMAIN order |-> PieceOf(exs[order[i]])]
    IN IF Len(feats) = 1 THEN feats[1] ELSE Reduce(Head(feats), Tail(feats))

-----------------------------------------------------------------------------
(* cobble *)

\* The events <<position, kind, exon>>, kind 1 for a start and 0 for an end.
Ends(exs) == [i \in DOMAIN exs |-> <<exs[i].start, 1, i>>]
             \o [i \in DOMAIN exs |-> <<exs[i].end, 0, i>>]

\* Tuple order of ends.sort(): by position, then kind, then the exon object
\* (Python 2 orders such objects by address).
EndBefore(x, y, rank) ==
    \/ x[1] < y[1]
    \/ x[1] = y[1] /\ x[2] < y[2]
    \/ x[1] = y[1] /\ x[2] = y[2] /\ rank[x[3]] <= rank[y[3]]

RECURSIVE InsertEnd(_, _, _)
InsertEnd(x, s, rank) ==
    IF s = <<>> THEN <<x>>
    ELSE IF EndBefore(x, Head(s), rank) THEN <<x>> \o s
    ELSE <<Head(s)>> \o InsertEnd(x, Tail(s), rank)

RECURSIVE SortEnds(_, _)
SortEnds(es, rank) ==
    IF es = <<>> THEN <<>>
    ELSE InsertEnd(Head(es), SortEnds(Tail(es), rank), rank)

\* active_exons.remove(x): drops the first occurrence.
RemoveFirst(s, x) ==
    LET k == CHOOSE i \in DOMAIN s : s[i] = x /\ \A j \in 1..(i-1) : s[j] # x
    IN [i \in 1..(Len(s) - 1) |-> IF i < k THEN s[i] ELSE s[i+1]]

\* EmitsPiece without "if a[0]==b[0]: continue".
EmitsPieceNoSkip(active, a, b) == Len(active) # 0

\* Neither "continue" of the loop body is taken.
EmitsPiece(active, a, b) == Len(active) # 0 /\ a[1] # b[1]

\* The loop of cobble from iteration i on.  The result is
\* [raised, cobbled]: raised when an __and__ met two chromosomes.
RECURSIVE Sweep(_, _, _, _, _, _)
Sweep(exs, rank, ends, i, active, cobbled) ==
    IF i > Len(ends) - 1 THEN [raised |-> FALSE, cobbled |-> cobbled]
    ELSE LET a == ends[i]
             b == ends[i+1]
             act == IF a[2] = 1 THEN Append(active, a[3])
                    ELSE RemoveFirst(active, a[3])
         IN IF ~EmitsPiece(act, a, b)
            THEN Sweep(exs, rank, ends, i + 1, act, cobbled)
            ELSE IF ~SameChrom([k \in DOMAIN act |-> exs[act[k]]])
            THEN [raised |-> TRUE, cobbled |-> cobbled]
            ELSE LET e == IntersectExonsList(exs, act, rank)
                 IN Sweep(exs, rank, ends, i + 1, act,
                          Append(cobbled, [e EXCEPT !.start = a[1], !.end = b[1]]))

Cobble(exs, rank) == Sweep(exs, rank, SortEnds(Ends(exs), rank), 1, <<>>, <<>>)

-----------------------------------------------------------------------------
(* process_chunk *)

\* itertools.groupby(ckexons, id): runs of consecutive occurrences with the
\* same id; the first of a run takes the transcript of each other one.
RECURSIVE Regroup(_, _)
Regroup(ck, acc) ==
    IF ck = <<>> THEN acc
    ELSE LET g == Head(ck)
             last == Len(acc)
         IN IF last > 0 /\ acc[last].id = g.id
            THEN Regroup(Tail(ck),
                         [acc EXCEPT ![last].transcripts = Append(@, g.transcripts[1])])
            ELSE Regroup(Tail(ck), Append(acc, g))

\* if p.length < 100: continue
Retained(p) == ~(p.length < MinPieceLength)

TxOf(ps) == UNION {Range(ps[k].transcripts) : k \in DOMAIN ps}

\* t2e[t]: p.id appended once per occurrence of t in p.transcripts, over the
\* retained pieces in order.
T2EList(ps, t) ==
    Flatten([k \in DOMAIN ps |->
               IF Retained(ps[k])
               THEN [j \in 1..Count(ps[k].transcripts, t) |-> ps[k].id]
               ELSE <<>>])

T2E(ps) ==
    [t \in {u \in TxOf(ps) : \E k \in DOMAIN ps :
                Retained(ps[k]) /\ u \in Range(ps[k].transcripts)}
       |-> T2EList(ps, t)]

\* tuple(sorted(e)) read as the multiset of e: two sorted tuples are equal
\* exactly when the lists hold the same ids the same number of times.
Signature(e) == [x \in Range(e) |-> Count(e, x)]

\* The values of e2t: the transcripts of t2e grouped by signature.
E2TGroups(m) ==
    {{t \in DOMAIN m : Signature(m[t]) = Signature(m[u])} : u \in DOMAIN m}

\* tlist[0] for every tlist of e2t: the order of a tlist is the iteration
\* order of the dict t2e, so any member of a group may come first.
FirstOfGroups(m) ==
    {r \in [E2TGroups(m) -> DOMAIN m] : \A g \in E2TGroups(m) : r[g] \in g}

\* TxReplace with "if len(tlist)>2": a pair of transcripts is left alone.
TxReplaceOverTwo(m, r) ==
    [t \in {u \in DOMAIN m \ {r[g] : g \in E2TGroups(m)} :
               \E g \in E2TGroups(m) : u \in g /\ Cardinality(g) > 2}
       |-> r[CHOOSE g \in E2TGroups(m) : t \in g]]

\* dict((badt, tlist[0]) for tlist in e2t.values() for badt in tlist[1:])
TxReplace(m, r) ==
    [t \in DOMAIN m \ {r[g] : g \in E2TGroups(m)}
       |-> r[CHOOSE g \in E2TGroups(m) : t \in g]]

\* tx_replace.get(t, t)
Get(txr, t) == IF t \in DOMAIN txr THEN txr[t] ELSE t

\* p.transcripts = list(set([tx_replace.get(t,t) for t in p.transcripts]))
Filtered(p, txr) == {Get(txr, t) : t \in Range(p.transcripts)}

Rewrite(ps, txr) ==
    [k \in DOMAIN ps |-> [ps[k] EXCEPT !.transcripts = SortedSeq(Filtered(ps[k], txr))]]

\* TpMap over the pieces of at least 100bp only, as t2e is built.
TpMapRetained(ps) ==
    [t \in TxOf(ps) |->
       Flatten([k \in DOMAIN ps |->
                  IF Retained(ps[k])
                  THEN [j \in 1..Count(ps[k].transcripts, t) |-> k]
                  ELSE <<>>])]

\* tp_map.setdefault(tx,[]).append(p.name) over the pieces in order.
TpMap(ps) ==
    [t \in TxOf(ps) |->
       Flatten([k \in DOMAIN ps |-> [j \in 1..Count(ps[k].transcripts, t) |-> k]])]

\* float(t in p.transcripts)/len(tp_map[t])
Aval(p, t, m) == <<IF t \in Range(p.transcripts) THEN 1 ELSE 0, Len(m[t])>>

\* if ckexons[0].gene_name != "Gapdh": return 1
PcSkip ==
    /\ pc = "entry"
    /\ ckexons[1].gene_name # "Gapdh"
    /\ pc' = ret
    /\ UNCHANGED <<ret, ckexons, chrom, exons, pieces, t2e, tx_replace,
                   transcripts, tp_map, Avals>>
    /\ UNCHANGED <<driverVars, combineVars, counterVars>>

\* Lines 174-182.
PcRegroup ==
    /\ pc = "entry"
    /\ ckexons[1].gene_name = "Gapdh"
    /\ exons' = Regroup(ckexons, <<>>)
    /\ pc' = "cobble"
    /\ UNCHANGED <<ret, ckexons, chrom, pieces, t2e, tx_replace,
                   transcripts, tp_map, Avals>>
    /\ UNCHANGED <<driverVars, combineVars, counterVars>>

\* pieces = cobble(exons).  An AssertionError ends the program.
PcCobble ==
    /\ pc = "cobble"
    /\ \E rank \in Orders[Len(exons)] :
          LET c == Cobble(exons, rank)
          IN IF c.raised
             THEN pc' = "AssertionError" /\ pieces' = <<>>
             ELSE pc' = "collapse" /\ pieces' = c.cobbled
    /\ UNCHANGED <<ret, ckexons, chrom, exons, t2e, tx_replace,
                   transcripts, tp_map, Avals>>
    /\ UNCHANGED <<driverVars, combineVars, counterVars>>

\* Lines 200-218.
PcCollapse ==
    /\ pc = "collapse"
    /\ t2e' = T2E(pieces)
    /\ \E r \in FirstOfGroups(t2e') :
          /\ tx_replace' = TxReplace(t2e', r)
          /\ pieces' = Rewrite(pieces, tx_replace')
    /\ transcripts' = TxOf(pieces')
    /\ pc' = "matrix"
    /\ UNCHANGED <<ret, ckexons, chrom, exons, tp_map, Avals>>
    /\ UNCHANGED <<driverVars, combineVars, counterVars>>

\* Lines 221-240.
PcMatrix ==
    /\ pc = "matrix"
    /\ tp_map' = TpMap(pieces)
    /\ Avals' = [k \in DOMAIN pieces |->
                   [t \in transcripts |-> Aval(pieces[k], t, tp_map')]]
    /\ pc' = "count"
    /\ UNCHANGED <<ret, ckexons, chrom, exons, pieces, t2e, tx_replace,
                   transcripts>>
    /\ UNCHANGED <<driverVars, combineVars, counterVars>>

\* Lines 243-254: p.length = p.end - p.start for every piece, tp_map
\* remade; then process_chunk returns.
PcCount ==
    /\ pc = "count"
    /\ pieces' = [k \in DOMAIN pieces |->
                    [pieces[k] EXCEPT !.length = pieces[k].end - pieces[k].start]]
    /\ tp_map' = TpMap(pieces)
    /\ pc' = ret
    /\ UNCHANGED <<ret, ckexons, chrom, exons, t2e, tx_replace,
                   transcripts, Avals>>
    /\ UNCHANGED <<driverVars, combineVars, counterVars>>

-----------------------------------------------------------------------------
(* reduce(lambda x,y: x&y, feats), one & at a time *)

\* The most features folded.
MaxFeats == 3

Strands == {1, -1, 0}

Chroms == {"chr6", "chr7"}

\* The features of a list: exon k of the list has id <<k>> and transcript k.
FeatLists ==
    LET Feat(k, c, st) == PieceOf(Exon(<<k>>, "Gapdh", "Gapdh", c, 0, 100, st, k))
    IN UNION {{[k \in 1..len |-> Feat(k, cs[k], ss[k])] :
                 cs \in [1..len -> Chroms], ss \in [1..len -> Strands]} :
              len \in 2..MaxFeats}

NoChunk ==
    /\ pc = "none" /\ ret = "none" /\ ckexons = <<>> /\ chrom = ""
    /\ exons = <<>> /\ pieces = <<>> /\ t2e = <<>> /\ tx_replace = <<>>
    /\ transcripts = {} /\ tp_map = <<>> /\ Avals = <<>>

NoDriver ==
    /\ annot = <<>> /\ rowi = 1 /\ lastchrom = "" /\ chrexons = <<>>
    /\ lastend = 0 /\ lastgeneid = "" /\ xi = 1 /\ handed = <<>>

NoCombine ==
    /\ cfeats = <<>> /\ ci = 0 /\ cself = <<>> /\ cacc = <<>> /\ cpc = "none"

NoCounter ==
    /\ stranded = FALSE /\ cstrand = 0 /\ n = 0 /\ n_raw = 0 /\ n_ws = 0
    /\ alignment = <<>> /\ nreads = 0

\* reduce starts from the first feature.
InitCombine ==
    /\ cfeats \in FeatLists
    /\ ci = 1
    /\ cself = <<>>
    /\ cacc = cfeats[1]
    /\ cpc = "reduce"
    /\ NoChunk /\ NoDriver /\ NoCounter

\* x & y with x the accumulator and y the next feature.
AndStep ==
    /\ cpc = "reduce"
    /\ ci < Len(cfeats)
    /\ cacc.chrom = cfeats[ci + 1].chrom
    /\ cself' = cacc
    /\ cacc' = ExonAnd(cacc, cfeats[ci + 1])
    /\ ci' = ci + 1
    /\ cpc' = IF ci' = Len(cfeats) THEN "done" ELSE "reduce"
    /\ UNCHANGED <<cfeats, chunkVars, driverVars, counterVars>>

\* assert self.chrom==other.chrom fails.
AndRaise ==
    /\ cpc = "reduce"
    /\ ci < Len(cfeats)
    /\ cacc.chrom # cfeats[ci + 1].chrom
    /\ cpc' = "AssertionError"
    /\ UNCHANGED <<cfeats, ci, cself, cacc, chunkVars, driverVars, counterVars>>

NextCombine == AndStep \/ AndRaise

SpecCombine == InitCombine /\ [][NextCombine]_vars

\* C7: the strand of a & b is the mean (a.strand + b.strand) / 2 of the two
\* strands, and its multiplicity is a.multiplicity + b.multiplicity.
C7_MeanStrand ==
    (cpc \in {"reduce", "done"} /\ ci >= 2) =>
        /\ 2 * cacc.strand = cself.strand + cfeats[ci].strand
        /\ cacc.multiplicity = cself.multiplicity + cfeats[ci].multiplicity

-----------------------------------------------------------------------------
(* Counter *)

\* The largest NH tag of a read.
MaxNH == 2
\* The most reads visited.
MaxReads == 3

RECURSIVE Factorial(_)
Factorial(k) == IF k <= 1 THEN 1 ELSE k * Factorial(k - 1)

\* n and n_ws are sums of 1.0/NH: they are counted in units of 1/Scale, which
\* every 1/NH is a whole number of.
Scale == Factorial(MaxNH)

TagSet == {<<"NH", k>> : k \in 1..MaxNH} \cup {<<"NM", 0>>}

\* alignment.tags: up to two tags.
TagLists == {<<>>} \cup {<<t>> : t \in TagSet} \cup {<<t, u>> : t \in TagSet, u \in TagSet}

Alignments == [is_reverse : BOOLEAN, tags : TagLists]

\* NH = [1.0/t[1] for t in alignment.tags if t[0]=='NH']+[1]; NH[0]
Weight(tags) ==
    LET nh == {i \in DOMAIN tags : tags[i][1] = "NH"}
    IN IF nh = {} THEN Scale
       ELSE Scale \div tags[CHOOSE i \in nh : \A j \in nh : i <= j][2]

\* Counter.__init__.
InitCounter ==
    /\ stranded \in BOOLEAN
    /\ cstrand = 0
    /\ n = 0
    /\ n_raw = 0
    /\ n_ws = 0
    /\ alignment = <<>>
    /\ nreads = 0
    /\ NoChunk /\ NoDriver /\ NoCombine

\* The user of a Counter sets its strand attribute, the exon strand, before
\* the reads are counted.
SetStrand ==
    /\ nreads = 0
    /\ cstrand = 0
    /\ cstrand' \in {1, -1}
    /\ UNCHANGED <<stranded, n, n_raw, n_ws, alignment, nreads,
                   chunkVars, driverVars, combineVars>>

\* The test of count_stranded.
RightStrand(st, a) ==
    \/ st = 1 /\ a.is_reverse = FALSE
    \/ st = -1 /\ a.is_reverse = TRUE

\* __call__ with count_fct = count.
Count_ ==
    /\ ~stranded
    /\ nreads < MaxReads
    /\ \E a \in Alignments :
          /\ alignment' = a
          /\ n' = n + Weight(a.tags)
          /\ n_raw' = n_raw + 1
    /\ nreads' = nreads + 1
    /\ UNCHANGED <<stranded, cstrand, n_ws, chunkVars, driverVars, combineVars>>

\* __call__ with count_fct = count_stranded.
CountStranded ==
    /\ stranded
    /\ nreads < MaxReads
    /\ \E a \in Alignments :
          /\ alignment' = a
          /\ IF RightStrand(cstrand, a)
             THEN n' = n + Weight(a.tags) /\ n_ws' = n_ws
             ELSE n_ws' = n_ws + Weight(a.tags) /\ n' = n
    /\ nreads' = nreads + 1
    /\ UNCHANGED <<stranded, cstrand, n_raw, chunkVars, driverVars, combineVars>>

NextCounter == SetStrand \/ Count_ \/ CountStranded

SpecCounter == InitCounter /\ [][NextCounter]_vars

\* C8: in stranded mode a read on the expected strand adds its weight 1/NH
\* (1 without NH tag) to n and 1 to n_raw and leaves n_ws alone; any other
\* read adds its weight to n_ws and leaves n and n_raw alone.
C8_StrandedCounting ==
    [][(stranded /\ nreads' = nreads + 1) =>
          IF RightStrand(cstrand, alignment')
          THEN /\ n' = n + Weight(alignment'.tags)
               /\ n_raw' = n_raw + 1
               /\ n_ws' = n_ws
          ELSE /\ n_ws' = n_ws + Weight(alignment'.tags)
               /\ n' = n
               /\ n_raw' = n_raw]_vars

-----------------------------------------------------------------------------
(* The chunks process_chunk is called with *)

\* An occurrence is <<start, end, exon, transcript>>.  Occurrences come
\* sorted by (start, end); an exon id names one interval; exon and
\* transcript ids are numbered in the order of their first occurrence
\* (the code reads neither but for equality), and the chunk starts at
\* coordinate 0 (the code compares and subtracts coordinates, no more).
IntervalLeq(s1, e1, s2, e2) == s1 < s2 \/ (s1 = s2 /\ e1 <= e2)

Intervals == {iv \in Coord \X Coord : iv[1] < iv[2]}

NextOcc(s) ==
    LET len == Len(s)
        ids == {s[i][3] : i \in 1..len}
        txs == {s[i][4] : i \in 1..len}
        after == IF len = 0 THEN {iv \in Intervals : iv[1] = 0}
                 ELSE {iv \in Intervals :
                         IntervalLeq(s[len][1], s[len][2], iv[1], iv[2])}
        old == {<<s[i][1], s[i][2], s[i][3]>> : i \in 1..len}
        again == {e \in old : <<e[1], e[2]>> \in after}
        new == {<<iv[1], iv[2], Cardinality(ids) + 1>> : iv \in after}
    IN {<<e[1], e[2], e[3], t>> :
          e \in again \cup new, t \in 1..(Cardinality(txs) + 1)}

Genes == {"Gapdh", "Actb"}

OccExon(o, gene) == Exon(<<o[3]>>, gene, gene, "chr6", o[1], o[2], -1, o[4])

OccOf(ck) ==
    [i \in DOMAIN ck |->
       <<ck[i].start, ck[i].end, ck[i].id[1], ck[i].transcripts[1]>>]

\* The chunk starts with one exon.
InitChunk ==
    /\ pc = "chunk"
    /\ ret = "returned"
    /\ \E o \in NextOcc(<<>>), g \in Genes : ckexons = <<OccExon(o, g)>>
    /\ chrom = "chr6"
    /\ exons = <<>>
    /\ pieces = <<>>
    /\ t2e = <<>>
    /\ tx_replace = <<>>
    /\ transcripts = {}
    /\ tp_map = <<>>
    /\ Avals = <<>>
    /\ NoDriver /\ NoCombine /\ NoCounter

\* ckexons.append(exon) for one more exon of the gene.  Of a chunk of
\* another gene only the first exon is read.
ChunkAppend ==
    /\ pc = "chunk"
    /\ Len(ckexons) < MaxOcc
    /\ ckexons[1].gene_name = "Gapdh"
    /\ \E o \in NextOcc(OccOf(ckexons)) :
          ckexons' = Append(ckexons, OccExon(o, "Gapdh"))
    /\ UNCHANGED <<pc, ret, chrom, exons, pieces, t2e, tx_replace,
                   transcripts, tp_map, Avals>>
    /\ UNCHANGED <<driverVars, combineVars, counterVars>>

\* process_chunk(ckexons, ...)
ChunkCall ==
    /\ pc = "chunk"
    /\ pc' = "entry"
    /\ UNCHANGED <<ret, ckexons, chrom, exons, pieces, t2e, tx_replace,
                   transcripts, tp_map, Avals>>
    /\ UNCHANGED <<driverVars, combineVars, counterVars>>

NextChunk ==
    \/ ChunkAppend
    \/ ChunkCall
    \/ PcSkip
    \/ PcRegroup
    \/ PcCobble
    \/ PcCollapse
    \/ PcMatrix
    \/ PcCount

SpecChunk == InitChunk /\ [][NextChunk]_vars

-----------------------------------------------------------------------------
(* rnacount *)

\* The most rows of the annotation file.
MaxRows == 3

\* smap of parse_gtf.
StrandOf(x) == CASE x = "+" -> 1 [] x = "-" -> -1 [] x = "." -> 0

\* parse_gtf(row) of an exon row: start is made 0-based.
ParseGtf(row) ==
    Exon(<<row.exon_id>>, row.gene_id, row.gene_name, row.chrom,
         row.start - 1, row.end, StrandOf(row.strand), row.transcript_id)

\* GTF start and end of the exons of the annotation; the first is 1bp long.
RowIntervals == {<<1, 1>>, <<1, 100>>, <<51, 150>>, <<201, 300>>}

\* gene_id, gene_name, strand and transcript of the genes of the annotation.
RowGenes == {<<"g1", "Gapdh", "-", 1>>, <<"g2", "Actb", "+", 2>>}

\* The exon rows: one exon_id for each exon of a chromosome.
Rows ==
    {[chrom |-> c, start |-> iv[1], end |-> iv[2], strand |-> g[3],
      gene_id |-> g[1], gene_name |-> g[2], exon_id |-> <<c, iv[1], iv[2]>>,
      transcript_id |-> g[4]] : c \in Chroms, iv \in RowIntervals, g \in RowGenes}

\* "chr6" before "chr7".
ChromLeq(c, d) == c = d \/ (c = "chr6" /\ d = "chr7")

\* Annotations sorted by chromosome name, as the docstring of rnacount asks.
Annotations ==
    UNION {{a \in [1..len -> Rows] :
              \A i \in 1..(len - 1) : ChromLeq(a[i].chrom, a[i+1].chrom)} :
           len \in 1..MaxRows}

\* chrexons.sort(key=lambda x: (x.start,x.end)): a stable sort.
RECURSIVE StableSort(_)
StableSort(s) ==
    IF s = <<>> THEN <<>>
    ELSE LET Leq(i, j) == IntervalLeq(s[i].start, s[i].end, s[j].start, s[j].end)
             k == CHOOSE i \in DOMAIN s :
                     /\ \A j \in DOMAIN s : Leq(i, j)
                     /\ \A j \in 1..(i - 1) : ~Leq(j, i)
         IN <<s[k]>> \o StableSort([i \in 1..(Len(s) - 1) |->
                                       IF i < k THEN s[i] ELSE s[i+1]])

\* Lines 262-268: the first row is read and parsed.
InitDriver ==
    /\ annot \in Annotations
    /\ rowi = 1
    /\ chrom = ParseGtf(annot[1]).chrom
    /\ lastchrom = chrom
    /\ chrexons = <<>>
    /\ lastend = 0
    /\ lastgeneid = ""
    /\ xi = 1
    /\ handed = <<>>
    /\ pc = "outer"
    /\ ret = "none"
    /\ ckexons = <<>>
    /\ exons = <<>> /\ pieces = <<>> /\ t2e = <<>> /\ tx_replace = <<>>
    /\ transcripts = {} /\ tp_map = <<>> /\ Avals = <<>>
    /\ NoCombine /\ NoCounter

\* while row: ... ; annot.close()
Outer ==
    /\ pc = "outer"
    /\ IF rowi <= Len(annot)
       THEN pc' = "inner" /\ chrexons' = <<>>
       ELSE pc' = "done" /\ chrexons' = chrexons
    /\ UNCHANGED <<ret, ckexons, chrom, exons, pieces, t2e, tx_replace,
                   transcripts, tp_map, Avals>>
    /\ UNCHANGED <<annot, rowi, lastchrom, lastend, lastgeneid, xi, handed>>
    /\ UNCHANGED <<combineVars, counterVars>>

\* Lines 274-280: one turn of "while chrom == lastchrom".  Neither chrom nor
\* lastchrom is assigned in the loop.
Inner ==
    /\ pc = "inner"
    /\ IF chrom = lastchrom
       THEN LET exon == ParseGtf(annot[rowi])
            IN /\ chrexons' = IF exon.end - exon.start > 1
                              THEN Append(chrexons, exon) ELSE chrexons
               /\ rowi' = rowi + 1
               /\ pc' = IF rowi' > Len(annot) THEN "sort" ELSE "inner"
       ELSE pc' = "sort" /\ UNCHANGED <<chrexons, rowi>>
    /\ UNCHANGED <<ret, ckexons, chrom, exons, pieces, t2e, tx_replace,
                   transcripts, tp_map, Avals>>
    /\ UNCHANGED <<annot, lastchrom, lastend, lastgeneid, xi, handed>>
    /\ UNCHANGED <<combineVars, counterVars>>

\* Lines 281-288.  chrexons[0] of an empty list raises IndexError.
Sort ==
    /\ pc = "sort"
    /\ lastchrom' = chrom
    /\ chrexons' = StableSort(chrexons)
    /\ IF chrexons' = <<>>
       THEN pc' = "IndexError" /\ UNCHANGED <<lastend, lastgeneid, ckexons, xi>>
       ELSE /\ lastend' = chrexons'[1].end
            /\ lastgeneid' = ""
            /\ ckexons' = <<>>
            /\ xi' = 1
            /\ pc' = "for"
    /\ UNCHANGED <<ret, chrom, exons, pieces, t2e, tx_replace,
                   transcripts, tp_map, Avals>>
    /\ UNCHANGED <<annot, rowi, handed>>
    /\ UNCHANGED <<combineVars, counterVars>>

\* if (exon.start <= lastend) or (exon.gene_id == lastgeneid)
Stored(exon) == exon.start <= lastend \/ exon.gene_id = lastgeneid

\* process_chunk(ckexons, sam, chrom, lastend) is entered.
Call(r) ==
    /\ pc' = "entry"
    /\ ret' = r
    /\ handed' = handed \o ckexons
    /\ exons' = <<>> /\ pieces' = <<>> /\ t2e' = <<>> /\ tx_replace' = <<>>
    /\ transcripts' = {} /\ tp_map' = <<>> /\ Avals' = <<>>
    /\ UNCHANGED <<ckexons, chrom>>
    /\ UNCHANGED <<annot, rowi, lastchrom, chrexons, lastend, lastgeneid, xi>>
    /\ UNCHANGED <<combineVars, counterVars>>

\* Lines 289-292 and 297-298: the exon joins the chunk.
ForStore ==
    /\ pc = "for"
    /\ xi <= Len(chrexons)
    /\ Stored(chrexons[xi])
    /\ ckexons' = Append(ckexons, chrexons[xi])
    /\ lastend' = Max(chrexons[xi].end, lastend)
    /\ lastgeneid' = chrexons[xi].gene_id
    /\ xi' = xi + 1
    /\ UNCHANGED <<pc, ret, chrom, exons, pieces, t2e, tx_replace,
                   transcripts, tp_map, Avals>>
    /\ UNCHANGED <<annot, rowi, lastchrom, chrexons, handed>>
    /\ UNCHANGED <<combineVars, counterVars>>

\* Line 295: the stored chunk is processed.
ForCall ==
    /\ pc = "for"
    /\ xi <= Len(chrexons)
    /\ ~Stored(chrexons[xi])
    /\ Call("after_call")

\* Lines 296-298, after process_chunk has returned.
AfterCall ==
    /\ pc = "after_call"
    /\ ckexons' = <<chrexons[xi]>>
    /\ lastend' = Max(chrexons[xi].end, lastend)
    /\ lastgeneid' = chrexons[xi].gene_id
    /\ xi' = xi + 1
    /\ pc' = "for"
    /\ UNCHANGED <<ret, chrom, exons, pieces, t2e, tx_replace,
                   transcripts, tp_map, Avals>>
    /\ UNCHANGED <<annot, rowi, lastchrom, chrexons, handed>>
    /\ UNCHANGED <<combineVars, counterVars>>

\* Line 299: the last chunk is processed.
ForEnd ==
    /\ pc = "for"
    /\ xi > Len(chrexons)
    /\ Call("outer")

NextDriver ==
    \/ Outer
    \/ Inner
    \/ Sort
    \/ ForStore
    \/ ForCall
    \/ AfterCall
    \/ ForEnd
    \/ PcSkip
    \/ PcRegroup
    \/ PcCobble
    \/ PcCollapse
    \/ PcMatrix
    \/ PcCount

SpecDriver == InitDriver /\ [][NextDriver]_vars

\* The rows of the annotation that are loaded: those longer than 1bp.
Loaded == {i \in DOMAIN annot : annot[i].end - (annot[i].start - 1) > 1}

\* C9: the exons are loaded, sorted and chunked one chromosome at a time:
\* a chunk given to process_chunk holds only exons of the chromosome given
\* with it, and every loaded exon is given in exactly one chunk.
C9_ChunksPerChromosome ==
    /\ pc = "sort" => \A i \in DOMAIN chrexons : chrexons[i].chrom = chrom
    /\ pc = "entry" => \A i \in DOMAIN ckexons : ckexons[i].chrom = chrom
    /\ pc = "done" =>
          \A i \in Loaded : Count(handed, ParseGtf(annot[i]))
                              = Cardinality({j \in Loaded : annot[j] = annot[i]})

-----------------------------------------------------------------------------
(* Properties of process_chunk and cobble, under SpecChunk *)

\* The grid cells [c, c+50) inside [s, e).
Cells(s, e) == {c \in Coord : s <= c /\ c < e}

Covered(fs) == UNION {Cells(fs[i].start, fs[i].end) : i \in DOMAIN fs}

Overlaps(f, g) == f.start < g.end /\ g.start < f.end

\* C1: the pieces cobble returns are non-empty, pairwise non-overlapping and
\* ordered by start, and they cover exactly the positions that the input
\* exons cover.
C1_Partition ==
    pc = "collapse" =>
        /\ \A k \in DOMAIN pieces : pieces[k].start < pieces[k].end
        /\ \A k, l \in DOMAIN pieces :
              k < l => /\ pieces[k].start < pieces[l].start
                       /\ ~Overlaps(pieces[k], pieces[l])
        /\ Covered(pieces) = Covered(exons)

\* Cobble has run on three exons, two that overlap and one after a gap, and
\* has returned a combined piece and a copied one.
C1_Witness ==
    /\ pc = "collapse"
    /\ Len(exons) = 3
    /\ \E c \in Coord : /\ c \notin Covered(exons)
                        /\ \E lo, hi \in Covered(exons) : lo < c /\ c < hi
    /\ \E i, j \in DOMAIN exons : i # j /\ Overlaps(exons[i], exons[j])
    /\ Len(pieces) >= 2
    /\ \E k \in DOMAIN pieces : pieces[k].multiplicity >= 2

\* C2: the transcripts of every piece are those of all the input exons that
\* overlap the piece, whether the piece copies one exon or combines several.
C2_TranscriptUnion ==
    pc = "collapse" =>
        \A k \in DOMAIN pieces :
            Range(pieces[k].transcripts) =
                UNION {Range(exons[i].transcripts) :
                         i \in {j \in DOMAIN exons : Overlaps(exons[j], pieces[k])}}

\* Cobble has returned a copied piece and a piece combined from exons of
\* different transcripts.
C2_Witness ==
    /\ pc = "collapse"
    /\ \E k \in DOMAIN pieces : pieces[k].multiplicity = 1
    /\ \E k \in DOMAIN pieces :
          /\ pieces[k].multiplicity >= 2
          /\ \A i \in DOMAIN exons :
                Range(exons[i].transcripts) # Range(pieces[k].transcripts)

\* The number of pieces whose transcripts hold t.
K(t) == Cardinality({k \in DOMAIN pieces : t \in Range(pieces[k].transcripts)})

RECURSIVE SumNum(_, _)
SumNum(col, len) == IF len = 0 THEN 0 ELSE col[len][1] + SumNum(col, len - 1)

\* C3: entry (p, t) of the matrix is 1/k(t) when t is a transcript of p and 0
\* otherwise, with k(t) >= 1 the number of pieces holding t: a column has
\* k(t) entries 1/k(t) and sums to 1.
C3_WeightNormalization ==
    pc = "count" =>
        \A t \in transcripts :
            /\ K(t) >= 1
            /\ \A k \in DOMAIN pieces :
                  Avals[k][t] = IF t \in Range(pieces[k].transcripts)
                                THEN <<1, K(t)>> ELSE <<0, K(t)>>
            /\ SumNum([k \in DOMAIN pieces |-> Avals[k][t]], Len(pieces)) = K(t)

\* The matrix is built for two transcripts, one of them on several pieces
\* and absent from another piece.
C3_Witness ==
    /\ pc = "count"
    /\ Cardinality(transcripts) >= 2
    /\ \E t \in transcripts : K(t) >= 2 /\ K(t) < Len(pieces)

\* C4: a second run of the collapsing step on the rewritten pieces replaces
\* nothing and leaves the pieces' transcripts and the transcript list as
\* they are.
C4_CollapseIdempotent ==
    pc = "matrix" =>
        \A r \in FirstOfGroups(T2E(pieces)) :
            LET again == TxReplace(T2E(pieces), r)
            IN /\ DOMAIN again = {}
               /\ \A k \in DOMAIN pieces :
                     Filtered(pieces[k], again) = Range(pieces[k].transcripts)
               /\ TxOf(Rewrite(pieces, again)) = transcripts

C6_MinLengthFilter ==
    pc = "matrix" =>
        \A k \in DOMAIN pieces :
            IF pieces[k].end - pieces[k].start >= MinPieceLength
            THEN \A t \in Range(pieces[k].transcripts) :
                    t \in DOMAIN t2e /\ pieces[k].id \in Range(t2e[t])
            ELSE ~Retained(pieces[k])

\* C10: after the regrouping every exon id of the chunk is the id of exactly
\* one exon given to cobble, which has the transcripts of all the
\* occurrences of that id.
C10_Regrouped ==
    pc = "cobble" =>
        \A x \in {ckexons[j].id : j \in DOMAIN ckexons} :
            /\ Cardinality({i \in DOMAIN exons : exons[i].id = x}) = 1
            /\ \A i \in DOMAIN exons :
                  exons[i].id = x =>
                      Range(exons[i].transcripts) =
                          {ckexons[j].transcripts[1] :
                             j \in {l \in DOMAIN ckexons : ckexons[l].id = x}}

====
